---- MODULE Spec2Model ----
(***************************************************************************)
(* State-machine model of src/src/App/App.tsx: the App type switch, the    *)
(* two search screens, the useFormManager and useRequest hooks, the        *)
(* requestExecutor HTTP layer and searchValueValidator.                    *)
(*                                                                         *)
(* A JavaScript string is a sequence of atoms: an atom is one whitespace   *)
(* character or a piece of non-whitespace text ("a", "Not Found" taken as  *)
(* one piece), so that String.prototype.trim is computed, not assumed.     *)
(* Every other JavaScript value is a record tagged by its type in field t. *)
(* One step of the model is one browser task: an event handler, or the     *)
(* continuation of refetch after its await, together with the re-render    *)
(* React performs before the next event is dispatched.                     *)
(***************************************************************************)
EXTENDS Integers, Sequences, FiniteSets, TLC

VARIABLES
  searchType,   \* App: useState(SearchTypeEnum.USER)
  mounted,      \* the screens App's render output holds
  instance,     \* which mount of a screen that is: 1 for the first, 2 for the next
  id,           \* makeUniqueIdGenerator: the closure counter
  keys,         \* every id generateUniqueId has returned, in the order of the calls
  state,        \* useFormManager: useState(initialState) of the mounted screen
  errors,       \* useFormManager: the memoised validation result
  data,         \* useRequest: useState(null) of the mounted screen
  error,        \* useRequest: useState(null)
  isLoading,    \* useRequest: useState(false)
  pending,      \* lookups awaited by refetch calls, oldest call first
  last          \* the task that produced this state and what it observed

vars == <<searchType, mounted, instance, id, keys, state, errors, data, error, isLoading, pending, last>>

---------------------------------------------------------------------------
\* Bounds of the model.

\* longest text typed into the input, in atoms
MaxLen == 3
\* most lookups awaited at once
MaxPending == 2
\* most changes of the select in one behaviour (the id counter grows with each)
MaxSelectChanges == 2
\* longest string handed to searchValueValidator on its own, in atoms
MaxValueLen == 4

---------------------------------------------------------------------------
\* JavaScript values.

Null == [t |-> "null"]
Undefined == [t |-> "undefined"]
Str(s) == [t |-> "string", s |-> s]
\* new Error(message): the message argument is converted to a string,
\* an undefined argument gives the empty message
ToMessage(v) == IF v.t = "string" THEN v.s ELSE IF v.t = "undefined" THEN <<>> ELSE <<v.t>>
NewError(messageArg) == [t |-> "Error", message |-> ToMessage(messageArg)]

Whitespace == {" ", "\t"}
Chars == {"a"} \cup Whitespace

RECURSIVE TrimStart(_)
TrimStart(s) == IF s # <<>> /\ Head(s) \in Whitespace THEN TrimStart(Tail(s)) ELSE s
RECURSIVE TrimEnd(_)
TrimEnd(s) ==
  IF s # <<>> /\ s[Len(s)] \in Whitespace THEN TrimEnd(SubSeq(s, 1, Len(s) - 1)) ELSE s
\* String.prototype.trim
Trim(s) == TrimEnd(TrimStart(s))

\* e.target.value of a change event on the input
RawInputs == UNION {[1..n -> Chars] : n \in 0..MaxLen}

---------------------------------------------------------------------------
\* UniqueIdGenerator.

DigitChars == <<"0", "1", "2", "3", "4", "5", "6", "7", "8", "9">>
\* a number in a template literal: its decimal digits
RECURSIVE ToDecimal(_)
ToDecimal(n) ==
  IF n < 10 THEN <<DigitChars[n + 1]>>
  ELSE ToDecimal(n \div 10) \o <<DigitChars[(n % 10) + 1]>>

\* a generator made anew for every call: makeUniqueIdGenerator()()
generateUniqueId_Fresh(counter) == [id |-> counter + 1, result |-> <<"id_">> \o ToDecimal(1)]

\* one call of generateUniqueId: the counter afterwards and the id returned
generateUniqueId(counter) ==
  [id |-> counter + 1, result |-> <<"id_">> \o ToDecimal(counter + 1)]

\* generateUniqueId called n times in a row: the counter afterwards
RECURSIVE generateUniqueIds(_, _)
generateUniqueIds(counter, n) ==
  IF n = 0 THEN counter ELSE generateUniqueId(generateUniqueIds(counter, n - 1)).id

\* Select: the ids options.map gives to n options
optionListIds(counter, n) ==
  [k \in 1..n |-> generateUniqueId(generateUniqueIds(counter, k - 1)).result]
\* the options App passes to Select
NumOptions == 2

---------------------------------------------------------------------------
\* API.

USER == "user"
REPO == "repo"
SearchTypeEnum == {USER, REPO}

\* what the remote end can answer with
Unparseable == [t |-> "unparseable"]
FoundBody == [t |-> "object", login |-> "octocat", message |-> Undefined]
MessageBody(m) == [t |-> "object", login |-> "none", message |-> Str(m)]
JsonBodies == {FoundBody, MessageBody(<<"Not Found">>), Null}
NetworkFailure == [net |-> FALSE]
Responses ==
  {NetworkFailure} \cup
  {[net |-> TRUE, ok |-> ok, body |-> b] : ok \in BOOLEAN, b \in JsonBodies \cup {Unparseable}}

Resolved(v) == [kind |-> "resolved", value |-> v]
Rejected(e) == [kind |-> "rejected", value |-> e]

\* requestExecutor without its response.ok test
requestExecutor_IgnoreStatus(response) ==
  IF ~response.net THEN Rejected(NewError(Str(<<"Failed to fetch">>)))
  ELSE IF response.body = Unparseable THEN Rejected(NewError(Str(<<"Unexpected token">>)))
  ELSE Resolved(response.body)

requestExecutor(response) ==
  IF ~response.net THEN Rejected(NewError(Str(<<"Failed to fetch">>)))
  ELSE IF response.body = Unparseable THEN Rejected(NewError(Str(<<"Unexpected token">>)))
  ELSE IF ~response.ok
    THEN IF response.body = Null
           THEN Rejected(NewError(Str(<<"Cannot read properties of null">>)))
           ELSE Rejected(NewError(response.body.message))
    ELSE Resolved(response.body)

fetchUser(userName) == [path |-> "users", name |-> userName]
fetchRepo(repoName) == [path |-> "repos", name |-> repoName]
fetchCb(form, arg) == IF form = USER THEN fetchUser(arg) ELSE fetchRepo(arg)

---------------------------------------------------------------------------
\* UseRequest hook.

UnknownErrorMessage == <<"neizvestnaya oshibka">>   \* 'неизвестная ошибка'

IdleRequest == [data |-> Null, error |-> Null, isLoading |-> FALSE]
Request == [data |-> data, error |-> error, isLoading |-> isLoading]

\* refetch that sets isLoading and leaves the previous data and error in place
refetchStart_KeepResult(req) == [req EXCEPT !.isLoading = TRUE]

\* refetch without its setError(null)
refetchStart_KeepError(req) == [req EXCEPT !.data = Null, !.isLoading = TRUE]

\* refetch up to its await
refetchStart(req) == [data |-> Null, error |-> Null, isLoading |-> TRUE]

\* refetch with setIsLoading(false) as the last statement of try, not in finally
refetchSettle_NoFinally(req, outcome) ==
  IF outcome.kind = "resolved"
    THEN [req EXCEPT !.data = outcome.value, !.isLoading = FALSE]
    ELSE IF outcome.value.t = "Error"
      THEN [req EXCEPT !.error = Str(outcome.value.message)]
      ELSE [req EXCEPT !.error = Str(UnknownErrorMessage)]

\* refetch from its await on: try / catch / finally
refetchSettle(req, outcome) ==
  IF outcome.kind = "resolved"
    THEN [req EXCEPT !.data = outcome.value, !.isLoading = FALSE]
    ELSE IF outcome.value.t = "Error"
      THEN [req EXCEPT !.error = Str(outcome.value.message), !.isLoading = FALSE]
      ELSE [req EXCEPT !.error = Str(UnknownErrorMessage), !.isLoading = FALSE]

\* clear without its setIsLoading(false)
clear_KeepLoading(req) == [req EXCEPT !.data = Null, !.error = Null]

clear(req) == [data |-> Null, error |-> Null, isLoading |-> FALSE]

---------------------------------------------------------------------------
\* UseFormManger hook and searchValueValidator.

NotTextMessage == <<"Vvedennoe znachenie ne tekst">>
EmptyMessage == <<"Vvedennoe znachenie ne dolzhno byt pustym">>

\* searchValueValidator comparing the value itself, untrimmed, with ''
searchValueValidator_NoTrim(value) ==
  IF value.t # "string" THEN Str(NotTextMessage)
  ELSE IF value.s = <<>> THEN Str(EmptyMessage)
  ELSE Null

searchValueValidator(value) ==
  IF value.t # "string" THEN Str(NotTextMessage)
  ELSE IF Trim(value.s) = <<>> THEN Str(EmptyMessage)
  ELSE Null

Fields == {"searchValue"}
initialState == [searchValue |-> Str(<<>>)]
validators(key) == IF key = "searchValue" THEN "searchValueValidator" ELSE "none"
validate(key, value) ==
  IF validators(key) = "searchValueValidator" THEN searchValueValidator(value) ELSE Null

\* the useMemo body with a validator lookup that finds none
computeErrors_NoValidators(st) == [isErrors |-> FALSE, errors |-> <<>>]

\* the useMemo body: errors holds only the keys whose validator failed
computeErrors(st) ==
  LET failed == {key \in DOMAIN st : validators(key) # "none" /\ validate(key, st[key]) # Null}
  IN [isErrors |-> failed # {}, errors |-> [key \in failed |-> validate(key, st[key])]]

\* handleSubmit without its errors.isErrors test
handleSubmit_Unchecked(st, errs) == <<st>>

\* handleSubmit: the arguments of the onSubmit calls it makes
handleSubmit(st, errs) == IF ~errs.isErrors THEN <<st>> ELSE <<>>

\* the onSubmit callback of the screens: the lookups that request.refetch starts
onSubmit(form, calls) == [k \in DOMAIN calls |-> fetchCb(form, calls[k].searchValue.s)]

\* getFieldProps(fieldName).onChange storing e.target.value as it is
onChange_NoTrim(prev, fieldName, rawValue) == [prev EXCEPT ![fieldName] = Str(rawValue)]

\* getFieldProps(fieldName).onChange: the callbacks it calls before setState
onChangeCallbacks(fieldName, rawValue) == <<"onFormStateChange">>

\* the onFormStateChange callback of the screens
onFormStateChange(req) == clear(req)

\* getFieldProps(fieldName).onChange: the updater handed to setState
onChange(prev, fieldName, rawValue) == [prev EXCEPT ![fieldName] = Str(Trim(rawValue))]

---------------------------------------------------------------------------
\* SearchUserForm / SearchRepoForm: what the rendered form lets the user do.

\* Input rendered without its readOnly attribute
readOnly_Never(req) == FALSE

\* <Input readOnly={request.isLoading} />: no change event while it holds
readOnly(req) == req.isLoading

\* Button rendered without its disabled attribute
disabled_Never(req) == FALSE

\* <Button type='submit' disabled={request.isLoading}>: no submit event while it holds
disabled(req) == req.isLoading

---------------------------------------------------------------------------
\* App.

\* the conditional rows of App's render output
AppRender(type) ==
  (IF type = USER THEN {"SearchUserForm"} ELSE {}) \cup
  (IF type = REPO THEN {"SearchRepoForm"} ELSE {})

\* the request state kept above the screens, shared by every mount
reaches_Shared(owner, inst) == TRUE

\* the setters a refetch call holds belong to the mount that made the call: they
\* reach the state of the mounted screen only while that mount is the one in the tree
reaches(owner, inst) == owner = inst

\* a refetch whose continuation gives up once clear() has run since its call
settleWrites_UnlessCleared(call, inst) == reaches(call.owner, inst) /\ ~call.cleared

\* the continuation of refetch after its await runs its setters whatever has
\* happened since the call: clear() cancels nothing
settleWrites(call, inst) == reaches(call.owner, inst)

\* clear() of the mounted screen, seen from the calls that are awaiting a lookup
afterClear(calls, inst) ==
  [i \in DOMAIN calls |->
     IF calls[i].owner = inst THEN [calls[i] EXCEPT !.cleared = TRUE] ELSE calls[i]]

---------------------------------------------------------------------------
\* The state after the first render.

Init ==
  /\ searchType = USER
  /\ mounted = AppRender(USER)
  /\ instance = 1
  /\ id = generateUniqueIds(0, NumOptions)
  /\ keys = optionListIds(0, NumOptions)
  /\ state = initialState
  /\ errors = computeErrors(initialState)
  /\ data = IdleRequest.data
  /\ error = IdleRequest.error
  /\ isLoading = IdleRequest.isLoading
  /\ pending = <<>>
  /\ last = [op |-> "init"]

SetRequest(req) ==
  /\ data' = req.data
  /\ error' = req.error
  /\ isLoading' = req.isLoading

\* request.refetch(arg) of the mounted screen, up to its await: the lookup is now
\* awaited by a call of the mounted screen that no later call has overtaken
StartLookup ==
  /\ SetRequest(refetchStart(Request))
  /\ pending' = Append(pending, [owner |-> instance, overtaken |-> FALSE,
                                 cleared |-> FALSE])

\* the calls still awaited once call i has settled: the calls of the same hook
\* instance started before it have been overtaken by it
AfterSettle(calls, i) ==
  LET mark(j) == IF j < i /\ calls[j].owner = calls[i].owner
                   THEN [calls[j] EXCEPT !.overtaken = TRUE] ELSE calls[j]
      rest == [j \in 1..(Len(calls) - 1) |-> IF j < i THEN mark(j) ELSE calls[j + 1]]
  IN rest

---------------------------------------------------------------------------
\* The screens: SearchUserForm / SearchRepoForm under App.

\* the input's change event; the input is readOnly while isLoading
Change(rawValue) ==
  /\ ~readOnly(Request)
  /\ SetRequest(IF onChangeCallbacks("searchValue", rawValue) # <<>>
                  THEN onFormStateChange(Request) ELSE Request)
  /\ state' = onChange(state, "searchValue", rawValue)
  /\ errors' = computeErrors(state')
  /\ last' = [op |-> "change", rawValue |-> rawValue,
              onFormStateChange |-> Len(onChangeCallbacks("searchValue", rawValue)),
              settledBefore |-> (data # Null \/ error # Null)]
  /\ pending' = IF onChangeCallbacks("searchValue", rawValue) # <<>>
                  THEN afterClear(pending, instance) ELSE pending
  /\ UNCHANGED <<searchType, mounted, instance, id, keys>>

\* the form's submit event; the submit button is disabled while isLoading
Submit ==
  /\ ~disabled(Request)
  /\ Len(pending) < MaxPending
  /\ LET calls == handleSubmit(state, errors)
     IN /\ IF calls # <<>>
             THEN StartLookup
             ELSE UNCHANGED <<data, error, isLoading, pending>>
        /\ last' = [op |-> "submit", values |-> state, onSubmit |-> calls,
                    fetch |-> onSubmit(searchType, calls), retry |-> error # Null]
  /\ UNCHANGED <<searchType, mounted, instance, id, keys, state, errors>>

\* the select's change event: App re-renders, Select maps its fresh options array
\* again, the other screen is mounted
SelectChange(value) ==
  /\ value # searchType
  /\ id + NumOptions <= NumOptions * (MaxSelectChanges + 1)
  /\ searchType' = value
  /\ mounted' = AppRender(value)
  /\ instance' = instance + 1
  /\ id' = generateUniqueIds(id, NumOptions)
  /\ keys' = keys \o optionListIds(id, NumOptions)
  /\ state' = initialState
  /\ errors' = computeErrors(initialState)
  /\ SetRequest(IdleRequest)
  /\ UNCHANGED pending
  /\ last' = [op |-> "select", value |-> value]

\* the lookup awaited by the i-th pending refetch call settles with outcome
SettleCall(i, outcome, response) ==
  /\ i \in 1..Len(pending)
  /\ SetRequest(IF settleWrites(pending[i], instance)
                  THEN refetchSettle(Request, outcome) ELSE Request)
  /\ pending' = AfterSettle(pending, i)
  /\ last' = [op |-> "settle", outcome |-> outcome, response |-> response,
              owner |-> pending[i].owner, overtaken |-> pending[i].overtaken,
              cleared |-> pending[i].cleared]
  /\ UNCHANGED <<searchType, mounted, instance, id, keys, state, errors>>

\* the HTTP exchange of a lookup ends with response
Settle(i, response) == SettleCall(i, requestExecutor(response), response)

Next ==
  \/ \E rawValue \in RawInputs : Change(rawValue)
  \/ Submit
  \/ \E value \in SearchTypeEnum : SelectChange(value)
  \/ \E i \in 1..MaxPending, response \in Responses : Settle(i, response)

Spec == Init /\ [][Next]_vars

---------------------------------------------------------------------------
\* useRequest on its own: refetch and clear called in any order on one instance,
\* with any lookup function.

HookArgs == {<<"a">>, <<"a", "a">>}
NonErrors == {Str(<<"boom">>), Undefined}
Outcomes == {requestExecutor(r) : r \in Responses} \cup {Rejected(v) : v \in NonErrors}
NoResponse == [net |-> "none"]

HookRefetch(arg) ==
  /\ Len(pending) < MaxPending
  /\ StartLookup
  /\ last' = [op |-> "refetch", fetch |-> <<fetchCb(searchType, arg)>>, before |-> Request]
  /\ UNCHANGED <<searchType, mounted, instance, id, keys, state, errors>>

HookClear ==
  /\ SetRequest(clear(Request))
  /\ last' = [op |-> "clear", before |-> Request]
  /\ pending' = afterClear(pending, instance)
  /\ UNCHANGED <<searchType, mounted, instance, id, keys, state, errors>>

HookSettle(i, outcome) == SettleCall(i, outcome, NoResponse)

NextHook ==
  \/ \E arg \in HookArgs : HookRefetch(arg)
  \/ HookClear
  \/ \E i \in 1..MaxPending, outcome \in Outcomes : HookSettle(i, outcome)

SpecHook == Init /\ [][NextHook]_vars

\* every lookup settles at some time: the oldest pending one never waits for ever
FairSpecHook == SpecHook /\ WF_vars(\E outcome \in Outcomes : HookSettle(1, outcome))

---------------------------------------------------------------------------
\* searchValueValidator on its own, applied to any value.

ValidatorInputs ==
  {Str(s) : s \in UNION {[1..n -> Chars] : n \in 0..MaxValueLen}} \cup
  {Null, Undefined, [t |-> "number"], [t |-> "object"]}

InitValidator ==
  /\ searchType = USER
  /\ mounted = AppRender(USER)
  /\ instance = 1
  /\ id = generateUniqueIds(0, NumOptions)
  /\ keys = optionListIds(0, NumOptions)
  /\ state = initialState
  /\ errors = computeErrors(initialState)
  /\ data = IdleRequest.data
  /\ error = IdleRequest.error
  /\ isLoading = IdleRequest.isLoading
  /\ pending = <<>>
  /\ last \in {[op |-> "input", value |-> v] : v \in ValidatorInputs}

Validate ==
  /\ last.op = "input"
  /\ last' = [op |-> "validate", value |-> last.value,
              result |-> searchValueValidator(last.value)]
  /\ UNCHANGED <<searchType, mounted, instance, id, keys, state, errors, data, error, isLoading, pending>>

NextValidator == Validate

SpecValidator == InitValidator /\ [][NextValidator]_vars

---------------------------------------------------------------------------
\* Properties.

NonBlank(s) == \E k \in DOMAIN s : s[k] \notin Whitespace
Idle == data = Null /\ error = Null /\ ~isLoading

\* C1: right after a refetch call of the hook instance settles, in any sequence
\* of refetch and clear calls: a lookup that resolved with r leaves data = r and
\* error = null, a lookup that rejected leaves error non-null and data = null.
C1_SettledResultIsExclusive ==
  (last.op = "settle" /\ last.owner = instance) =>
    /\ last.outcome.kind = "resolved" => (data = last.outcome.value /\ error = Null)
    /\ last.outcome.kind = "rejected" => (error # Null /\ data = Null)

\* C2: handleSubmit invokes onSubmit only when every field's validator returns
\* null for the values held at that submit, and then once, with those values.
C2_SubmitOnlyWhenValid ==
  (last.op = "submit" /\ last.onSubmit # <<>>) =>
    /\ last.values = state
    /\ \A key \in Fields : validate(key, last.values[key]) = Null
    /\ last.onSubmit = <<last.values>>

C2_Witness ==
  /\ last.op = "submit"
  /\ last.onSubmit = <<[searchValue |-> Str(<<"a", " ", "a">>)]>>

\* C3: on the screens no lookup is made for an empty search: no submit fetches
\* a blank name, and a submit while searchValue is empty leaves the request
\* state idle, with no lookup of the mounted screen awaited.
C3_NoLookupForEmptySearch ==
  last.op = "submit" =>
    /\ \A k \in DOMAIN last.fetch : NonBlank(last.fetch[k].name)
    /\ ~NonBlank(last.values.searchValue.s) =>
         /\ last.fetch = <<>>
         /\ Idle
         /\ \A i \in DOMAIN pending : pending[i].owner # instance

C3_Witness ==
  /\ last.op = "submit"
  /\ state.searchValue = Str(<<>>)
  /\ errors.isErrors
  /\ last.fetch = <<>>
  /\ Idle

\* C4: right after clear(), whatever the state before it (idle, loading, settled
\* with data, settled with an error): data = null, error = null, isLoading = false.
C4_ClearResets == last.op = "clear" => Idle

C4_Witness ==
  /\ last.op = "clear"
  /\ last.before.isLoading
  /\ pending # <<>>
  /\ Idle

\* C5: given that every lookup settles at some time, whenever a refetch call is
\* awaiting its lookup a settlement follows that leaves isLoading = false, be it
\* a result, an Error or a rejection with some other value.
C5_LoadingCleared == (pending # <<>>) ~> (last.op = "settle" /\ ~isLoading)

C5_Witness ==
  /\ last.op = "settle"
  /\ last.outcome.kind = "rejected"
  /\ last.outcome.value.t # "Error"
  /\ ~isLoading

\* C6: exactly one screen is mounted, the one matching searchType; a newly
\* mounted screen starts with searchValue = '' and an idle request state; and
\* the settlement of a lookup started by a screen that has since been unmounted
\* leaves the state of the mounted screen as it was.
C6_Mounted ==
  /\ Cardinality(mounted) = 1
  /\ searchType = USER => mounted = {"SearchUserForm"}
  /\ searchType = REPO => mounted = {"SearchRepoForm"}
  /\ last.op \in {"init", "select"} => (state.searchValue = Str(<<>>) /\ Idle)

C6_StaleSettle ==
  (last'.op = "settle" /\ last'.owner # instance') => UNCHANGED <<state, errors, data, error, isLoading>>

C6_FreshFormOnSwitch == [](C6_Mounted) /\ [][C6_StaleSettle]_vars

C6_Witness ==
  /\ last.op = "settle"
  /\ last.owner # instance
  /\ last.outcome.kind = "resolved"
  /\ searchType = REPO
  /\ isLoading

\* C7: a response outside the success range with body {message: m} makes
\* requestExecutor reject with an Error carrying m, and the screen settles with
\* error = m and data = null; a response in the success range makes it resolve
\* with the parsed body, and the screen settles with data = the body, error = null.
C7_HttpOutcome ==
  (last.op = "settle" /\ last.owner = instance /\ last.response.net) =>
    LET body == last.response.body
    IN /\ (~last.response.ok /\ body.t = "object" /\ body.message.t = "string") =>
            /\ last.outcome = Rejected([t |-> "Error", message |-> body.message.s])
            /\ error = body.message
            /\ data = Null
       /\ (last.response.ok /\ body # Unparseable) =>
            /\ last.outcome = Resolved(body)
            /\ data = body
            /\ error = Null

C7_Witness ==
  /\ last.op = "settle"
  /\ last.owner = instance
  /\ last.response = [net |-> TRUE, ok |-> FALSE, body |-> MessageBody(<<"Not Found">>)]
  /\ error = Str(<<"Not Found">>)
  /\ data = Null

\* C8: searchValueValidator returns null for every string with a non-whitespace
\* character, and a message for '', for every all-whitespace string and for
\* every value that is not a string.
C8_Validator ==
  last.op = "validate" =>
    IF last.value.t = "string"
      THEN (last.result = Null) <=> NonBlank(last.value.s)
      ELSE last.result # Null

C8_Witness ==
  /\ last.op = "validate"
  /\ last.value = Str(<<" ", "\t">>)
  /\ last.result = Str(EmptyMessage)

\* C9: when two refetch calls overlap and the one started first settles last,
\* the final data/error state is the one its settlement alone writes: its
\* result with no error, or its error with no data.
C9_LastSettledWins ==
  (last.op = "settle" /\ last.overtaken /\ pending = <<>>) =>
    /\ last.outcome.kind = "resolved" => (data = last.outcome.value /\ error = Null)
    /\ (last.outcome.kind = "rejected" /\ last.outcome.value.t = "Error") =>
         (error = Str(last.outcome.value.message) /\ data = Null)

\* C10: isLoading = true implies data = null and error = null, in every state
\* of the hook: a refetch clears them whatever the state before it.
C10_LoadingImpliesEmpty == isLoading => (data = Null /\ error = Null)

C10_Witness ==
  /\ last.op = "refetch"
  /\ last.before.data # Null
  /\ last.before.error # Null
  /\ isLoading
  /\ data = Null
  /\ error = Null

\* the lookups awaited by refetch calls of the mounted screen
InFlight == {i \in DOMAIN pending : pending[i].owner = instance}

\* C11: on the screens, where submit needs an enabled button and change an
\* editable input, at most one lookup of the mounted screen is awaited at any
\* time, and isLoading = true exactly when one is.
C11_SingleInFlight ==
  /\ Cardinality(InFlight) <= 1
  /\ isLoading <=> InFlight # {}

C11_Witness ==
  /\ isLoading
  /\ Cardinality(InFlight) = 1
  /\ Len(pending) = 2
  /\ last.op = "submit"

\* t is raw without its leading and trailing whitespace
IsTrimOf(t, raw) ==
  /\ t = <<>> \/ (t[1] \notin Whitespace /\ t[Len(t)] \notin Whitespace)
  /\ \E lead \in 0..Len(raw) :
       /\ lead + Len(t) <= Len(raw)
       /\ SubSeq(raw, lead + 1, lead + Len(t)) = t
       /\ \A k \in 1..Len(raw) : (k <= lead \/ k > lead + Len(t)) => raw[k] \in Whitespace

C13_AfterFailure ==
  /\ (last.op = "settle" /\ last.owner = instance /\ last.outcome.kind = "rejected") =>
       (~isLoading /\ ~disabled(Request) /\ error # Null)
  /\ (last.op = "submit" /\ last.onSubmit # <<>>) =>
       (Len(last.fetch) = 1 /\ isLoading /\ error = Null /\ data = Null)
  /\ (last.op = "submit" /\ last.onSubmit = <<>>) => last.fetch = <<>>

C13_LookupOnlyBySubmit ==
  /\ Len(pending') > Len(pending) =>
       /\ last'.op = "submit"
       /\ Len(last'.fetch) = 1
       /\ Len(pending') = Len(pending) + 1
  /\ (last'.op = "submit" /\ last'.onSubmit # <<>>) => Len(pending') = Len(pending) + 1
  /\ (last'.op = "submit" /\ last'.onSubmit = <<>>) => pending' = pending

C13_NoAutomaticRetry == [](C13_AfterFailure) /\ [][C13_LookupOnlyBySubmit]_vars

C13_Witness ==
  /\ last.op = "submit"
  /\ last.retry
  /\ last.onSubmit # <<>>
  /\ isLoading
  /\ error = Null

\* C14: right after a lookup of the hook instance rejects, error is the message
\* of the rejection value when that is an Error and the fixed generic message
\* when it is anything else, and data is null.
C14_RejectionMessage ==
  (last.op = "settle" /\ last.owner = instance /\ last.outcome.kind = "rejected") =>
    /\ last.outcome.value.t = "Error" => error = Str(last.outcome.value.message)
    /\ last.outcome.value.t # "Error" => error = Str(UnknownErrorMessage)
    /\ data = Null

C16_Distinct ==
  /\ \A i, j \in DOMAIN keys : i # j => keys[i] # keys[j]
  /\ id = Len(keys)

C16_Grows ==
  /\ id' >= id
  /\ Len(keys') >= Len(keys)
  /\ SubSeq(keys', 1, Len(keys)) = keys
  /\ id' - id = Len(keys') - Len(keys)

C16_UniqueIds == [](C16_Distinct) /\ [][C16_Grows]_vars

C16_Witness ==
  /\ last.op = "select"
  /\ instance = 3
  /\ Len(keys) = 3 * NumOptions
  /\ keys[Len(keys)] = <<"id_", "6">>

====
